---- MODULE Spec2Model ----
(***************************************************************************)
(* Model of scripts/api-check.py: the stateful sequential API test runner. *)
(*                                                                         *)
(* Text is a sequence of atoms (each atom an indivisible piece of text,    *)
(* such as "$ULID" or "t1"); str.replace and the `in` substring test are   *)
(* computed on these sequences.  A JSON value is a tagged record:          *)
(*   [t |-> "none"]                    Python None (no parsed body)        *)
(*   [t |-> "str",  v |-> text]        a JSON string                       *)
(*   [t |-> "dict", v |-> function]    a JSON object, DOMAIN = its keys    *)
(*   [t |-> "list", v |-> sequence]    a JSON array                        *)
(***************************************************************************)
EXTENDS Integers, Sequences, FiniteSets, TLC

\* ------------------------------------------------------------------ bounds
\* the longest suite (number of tests in tests["tests"])
MaxTests == 2
\* the longest users / records array in a response
MaxArray == 2
\* the most suite files of one batch (the test_files of main)
MaxFiles == 2

\* ------------------------------------------------------------------- text
ULID == <<"$ULID">>
NEXT_CURSOR == <<"$NEXT_CURSOR">>
ACCESS_TOKEN == <<"$ACCESS_TOKEN">>
REFRESH_TOKEN == <<"$REFRESH_TOKEN">>

\* Python's `sub in s` on text
Contains(s, sub) ==
    \E k \in 1..(Len(s) - Len(sub) + 1) : SubSeq(s, k, k + Len(sub) - 1) = sub

\* Python's s.replace(old, new): left to right, non-overlapping; old is never
\* empty where the program calls it (every call is guarded by truthiness)
RECURSIVE Replace(_, _, _)
Replace(s, old, new) ==
    IF old = <<>> \/ Len(s) < Len(old) THEN s
    ELSE IF SubSeq(s, 1, Len(old)) = old
         THEN new \o Replace(SubSeq(s, Len(old) + 1, Len(s)), old, new)
         ELSE <<Head(s)>> \o Replace(Tail(s), old, new)

\* Python's s.strip() on text whose only whitespace atom is " "
RECURSIVE Strip(_)
Strip(s) ==
    IF s = <<>> THEN s
    ELSE IF Head(s) = " " THEN Strip(Tail(s))
    ELSE IF s[Len(s)] = " " THEN Strip(SubSeq(s, 1, Len(s) - 1))
    ELSE s

\* Python's s.upper() on an HTTP verb
Upper(m) ==
    CASE m = "get" -> "GET"
      [] m = "post" -> "POST"
      [] OTHER -> m

\* ------------------------------------------------------------ JSON values
None == [t |-> "none"]
Str(s) == [t |-> "str", v |-> s]
Dict(f) == [t |-> "dict", v |-> f]
List(l) == [t |-> "list", v |-> l]
EmptyDict == Dict([k \in {} |-> None])

IsDict(j) == j.t = "dict"
IsList(j) == j.t = "list"

\* Python truthiness of a value
Truthy(j) ==
    CASE j.t = "none" -> FALSE
      [] j.t = "str" -> j.v # <<>>
      [] j.t = "dict" -> DOMAIN j.v # {}
      [] j.t = "list" -> j.v # <<>>

\* `key in obj` for a dict
HasKey(j, key) == IsDict(j) /\ key \in DOMAIN j.v

\* obj.get(key): None when the key is absent
Get(j, key) == IF key \in DOMAIN j.v THEN j.v[key] ELSE None

\* json.dumps of a parsed body, as text; keys are written in this order
DumpKeys ==
    <<"access_token", "refresh_token", "id", "data", "record", "apikeys",
      "users", "records", "items", "_id", "ulid", "uuid">>

RECURSIVE Dumps(_)
RECURSIVE DumpsKeys(_, _)
RECURSIVE DumpsItems(_)
Dumps(j) ==
    CASE j.t = "none" -> <<"null">>
      [] j.t = "str" -> <<"\"">> \o j.v \o <<"\"">>
      [] j.t = "dict" -> <<"{">> \o DumpsKeys(j, DumpKeys) \o <<"}">>
      [] j.t = "list" -> <<"[">> \o DumpsItems(j.v) \o <<"]">>
DumpsKeys(j, keys) ==
    IF keys = <<>> THEN <<>>
    ELSE (IF Head(keys) \in DOMAIN j.v
          THEN <<Head(keys), ":">> \o Dumps(j.v[Head(keys)]) \o <<",">>
          ELSE <<>>) \o DumpsKeys(j, Tail(keys))
DumpsItems(l) ==
    IF l = <<>> THEN <<>> ELSE Dumps(Head(l)) \o <<",">> \o DumpsItems(Tail(l))

\* ------------------------------------------- extract_record_id_from_response
\* "no return yet" inside the extraction loops
Miss == [t |-> "miss"]

ArrayKeys == <<"apikeys", "users", "data", "records", "items">>
OtherKeys == <<"_id", "ulid", "uuid">>

\* faulty variant: the first element whatever the key
SelectedItem_First(array_key, arr) == arr[1]

\* lines 165-168: the element of a non-empty array that is looked at
SelectedItem(array_key, arr) ==
    IF array_key = "users" /\ Len(arr) > 1 THEN arr[2] ELSE arr[1]

\* faulty variant: the loop ends at the first non-empty array, id or not
RECURSIVE ExtractFromArrays_FirstNonEmpty(_, _)
ExtractFromArrays_FirstNonEmpty(obj, keys) ==
    IF keys = <<>> THEN Miss
    ELSE LET array_key == Head(keys)
             isArr == /\ array_key \in DOMAIN obj.v
                      /\ IsList(obj.v[array_key])
                      /\ Len(obj.v[array_key].v) > 0
         IN  IF isArr
             THEN IF HasKey(SelectedItem(array_key, obj.v[array_key].v), "id")
                  THEN SelectedItem(array_key, obj.v[array_key].v).v["id"]
                  ELSE Miss
             ELSE ExtractFromArrays_FirstNonEmpty(obj, Tail(keys))

\* lines 162-171: the loop over the array keys, first return wins
RECURSIVE ExtractFromArrays(_, _)
ExtractFromArrays(obj, keys) ==
    IF keys = <<>> THEN Miss
    ELSE LET array_key == Head(keys)
             isArr == /\ array_key \in DOMAIN obj.v
                      /\ IsList(obj.v[array_key])
                      /\ Len(obj.v[array_key].v) > 0
         IN  IF isArr /\ HasKey(SelectedItem(array_key, obj.v[array_key].v), "id")
             THEN SelectedItem(array_key, obj.v[array_key].v).v["id"]
             ELSE ExtractFromArrays(obj, Tail(keys))

\* lines 174-178: per key, the top-level value, then the one under data
RECURSIVE ExtractFromOther(_, _)
ExtractFromOther(obj, keys) ==
    IF keys = <<>> THEN Miss
    ELSE LET key == Head(keys)
         IN  IF key \in DOMAIN obj.v THEN obj.v[key]
             ELSE IF /\ "data" \in DOMAIN obj.v
                     /\ IsDict(obj.v["data"])
                     /\ key \in DOMAIN obj.v["data"].v
                  THEN obj.v["data"].v[key]
                  ELSE ExtractFromOther(obj, Tail(keys))

extract_record_id_from_response(response_obj) ==
    IF ~Truthy(response_obj) \/ ~IsDict(response_obj) THEN None
    ELSE IF "id" \in DOMAIN response_obj.v THEN response_obj.v["id"]
    ELSE IF /\ "data" \in DOMAIN response_obj.v
            /\ HasKey(response_obj.v["data"], "id")
         THEN response_obj.v["data"].v["id"]
    ELSE IF /\ "record" \in DOMAIN response_obj.v
            /\ HasKey(response_obj.v["record"], "id")
         THEN response_obj.v["record"].v["id"]
    ELSE LET a == ExtractFromArrays(response_obj, ArrayKeys)
             o == ExtractFromOther(response_obj, OtherKeys)
         IN  IF a.t # "miss" THEN a
             ELSE IF o.t # "miss" THEN o
             ELSE None

\* ------------------------------------------------------ replace_record_in_test
\* A test case is a record:
\*   name      text of test["name"], <<>> when the key is absent
\*   cmd       test["cmd"], "" when the key is absent
\*   endpoint  text of test["endpoint"]
\*   auth      Str(test["headers"]["Authorization"]), None when there is none
\*   data      Str(serialized test["data"]), None when the key is absent
\* The returned kind is text: <<>> for Python's None.

\* lines 193-199
ReplaceInEndpoint(endpoint, record_id) ==
    IF Contains(endpoint, NEXT_CURSOR)
    THEN [endpoint |-> Replace(endpoint, NEXT_CURSOR, record_id), used |-> NEXT_CURSOR]
    ELSE IF Contains(endpoint, ULID)
    THEN [endpoint |-> Replace(endpoint, ULID, record_id), used |-> ULID]
    ELSE [endpoint |-> endpoint, used |-> <<>>]

\* lines 202-210; json.dumps / json.loads are the identity on the serialized
\* payload, the record ids of the model holding no JSON syntax
ReplaceInData(data, record_id, used) ==
    IF ~Truthy(data) THEN [data |-> data, used |-> used]
    ELSE IF Contains(data.v, NEXT_CURSOR)
    THEN [data |-> Str(Replace(data.v, NEXT_CURSOR, record_id)), used |-> NEXT_CURSOR]
    ELSE IF Contains(data.v, ULID)
    THEN [data |-> Str(Replace(data.v, ULID, record_id)), used |-> ULID]
    ELSE [data |-> data, used |-> used]

replace_record_in_test(test, record_id) ==
    IF ~Truthy(record_id) THEN [test |-> test, used |-> <<>>]
    ELSE LET e == ReplaceInEndpoint(test.endpoint, record_id.v)
             d == ReplaceInData(test.data, record_id.v, e.used)
         IN  [test |-> [test EXCEPT !.endpoint = e.endpoint, !.data = d.data],
              used |-> d.used]

\* ------------------------------------------------------------------ run_test
\* What the server (or the transport) does with one request:
\*   err   TRUE when requests.request raises
\*   code  the HTTP status code
\*   obj   the parsed JSON body, None when resp.json() raises
\*   text  resp.text, the body shown when it is not JSON
DigitAtom(d) == CASE d = 0 -> "0" [] d = 1 -> "1" [] d = 2 -> "2" [] d = 3 -> "3"
                  [] d = 4 -> "4" [] d = 5 -> "5" [] d = 6 -> "6" [] d = 7 -> "7"
                  [] d = 8 -> "8" [] d = 9 -> "9"

\* line 61: f"{resp.status_code} {resp.reason}"
StatusLine(code) ==
    <<DigitAtom(code \div 100), DigitAtom((code \div 10) % 10), DigitAtom(code % 10),
      " ", "reason">>

\* status.startswith("2")
StartsWith2(status) == status # <<>> /\ Head(status) = "2"

\* lines 11-35: the curl command as text
build_curl_command(url, method, headers, data) ==
    <<"curl -s -X ", method, " \"">> \o url \o <<"\"">>
    \o (IF headers.t # "none" THEN <<" -H \"Authorization: ">> \o headers.v \o <<"\"">> ELSE <<>>)
    \o (IF data.t # "none" THEN <<" -d '">> \o data.v \o <<"'">> ELSE <<>>)
    \o <<" | jq .">>

Method(test) == Upper(IF test.cmd = "" THEN "GET" ELSE test.cmd)

\* lines 42-54: the request handed to requests.request
Request(base_url, prefix, test) ==
    [kind |-> "test", method |-> Method(test),
     url |-> base_url \o prefix \o test.endpoint,
     auth |-> test.auth, data |-> test.data]

\* lines 37-71
run_test(base_url, prefix, test, out) ==
    [curl_cmd |-> build_curl_command(base_url \o prefix \o test.endpoint,
                                     Method(test), test.auth, test.data),
     status |-> IF out.err THEN <<"ERROR">> ELSE StatusLine(out.code),
     body |-> IF out.err THEN out.text
              ELSE IF out.obj.t # "none" THEN Dumps(out.obj) ELSE out.text,
     response_obj |-> IF out.err THEN None ELSE out.obj]

\* ------------------------------------------------------------ the inputs
SERVER == <<"http://srv">>
DOC == <<"https://doc">>
T0 == <<"t0">>
T1 == <<"t1">>
T2 == <<"t2">>
F1 == <<"f1">>
R1 == <<"r1">>
R2 == <<"r2">>

Bearer == Str(<<"Bearer ">> \o ACCESS_TOKEN)

TestCase(name, cmd, endpoint, auth, data) ==
    [name |-> name, cmd |-> cmd, endpoint |-> endpoint, auth |-> auth, data |-> data]

\* the test cases a suite file of the model is written from
TestCases ==
    { TestCase(<<"Login">>, "POST", <<"/", "auth:login">>, None, Str(<<"creds">>)),
      TestCase(<<>>, "post", <<"/", "auth:refresh">>, None, Str(REFRESH_TOKEN)),
      TestCase(<<"Probe">>, "", <<"/", "auth:login">>, Bearer, None),
      TestCase(<<"Create">>, "POST", <<"/w", ":create">>, Bearer, Str(<<"payload">>)),
      TestCase(<<" ">>, "GET", <<"/w", ":list">>, Bearer, None),
      TestCase(<<"Get">>, "get", <<"/w/">> \o ULID, Bearer, None),
      TestCase(<<"Update">>, "POST", <<"/w/">> \o ULID, Bearer, Str(<<"after=">> \o NEXT_CURSOR)),
      TestCase(<<"Page">>, "GET", <<"/w/">> \o NEXT_CURSOR \o <<"/">> \o ULID, None, Str(ULID)) }

\* sequences of at most n elements of S, the empty one left out
RECURSIVE SeqsUpTo(_, _)
SeqsUpTo(S, n) ==
    IF n = 0 THEN {<<>>}
    ELSE LET shorter == SeqsUpTo(S, n - 1)
         IN  shorter \cup {Append(q, x) : q \in shorter, x \in S}

\* a suite file as json.load returns it; `missing` names the absent keys
Suite(testlist) ==
    [serverURL |-> SERVER, docURL |-> DOC, prefix |-> <<"/api">>,
     tests |-> testlist, missing |-> {}]

Suites == {Suite(q) : q \in SeqsUpTo(TestCases, MaxTests) \ {<<>>}}

\* parsed response bodies the server of the model answers with: an object with
\* tokens and data.id, an object with a token and a top-level id, an array
Body1 ==
    Dict("access_token" :> Str(T1) @@ "refresh_token" :> Str(F1)
         @@ "data" :> Dict("id" :> Str(R1)))
Body2 == Dict("access_token" :> Str(T2) @@ "id" :> Str(R2))
BodyList == List(<<Str(<<"x">>)>>)

StatusCodes == {200, 201, 404}

Answer(code, obj) == [err |-> FALSE, code |-> code, obj |-> obj, text |-> <<"plain">>]

\* what a request of the model ends in: a transport failure, or an answer
Outcomes ==
    { [err |-> TRUE, code |-> 0, obj |-> None, text |-> <<"timed out">>],
      Answer(200, None), Answer(200, BodyList), Answer(201, Body1),
      Answer(200, Body2), Answer(404, None), Answer(404, Body1) }

\* the 2xx class of status codes
Is2xx(out) == ~out.err /\ out.code >= 200 /\ out.code <= 299

\* ------------------------------------------------------------------ state
VARIABLES
    mode,                \* "engine": run_all_tests called directly; "main": main()
    pc,                  \* where the program is
    files,               \* the suite files as written (engine: the one suite passed in)
    fileIdx,             \* the file in hand (main: where the for loop is)
    tests,               \* the suite dict in hand (its tests are rewritten in place)
    i,                   \* run_all_tests: the test the for loop is at
    access_token,
    refresh_token,
    captured_record_id,
    all_access_tokens,
    all_refresh_tokens,
    all_ok,
    results_md,          \* the transcript: one block per rendered test
    returned,            \* what each completed run_all_tests call returned
    sent,                \* history: every request issued, in order
    steps,               \* history: per executed test of the run in hand
    batch,               \* history: per suite file main has begun, its pre-flight and bootstrap
    call                 \* a function called on its own: its arguments and result

vars == <<mode, pc, files, fileIdx, tests, i, access_token, refresh_token,
          captured_record_id, all_access_tokens, all_refresh_tokens, all_ok,
          results_md, returned, sent, steps, batch, call>>

locals == <<i, refresh_token, captured_record_id, all_access_tokens,
            all_refresh_tokens, all_ok, results_md, steps>>

NoSuite == Suite(<<>>)

\* run_all_tests(tests, outdir, access_token) about to be called on its own
Init ==
    /\ mode = "engine"
    /\ pc = "call"
    /\ tests \in Suites
    /\ files = <<tests>>
    /\ fileIdx = 1
    /\ access_token \in {None, Str(T0)}
    /\ i = 0
    /\ refresh_token = None
    /\ captured_record_id = None
    /\ all_access_tokens = <<>>
    /\ all_refresh_tokens = <<>>
    /\ all_ok = TRUE
    /\ results_md = <<>>
    /\ returned = <<>>
    /\ sent = <<>>
    /\ steps = <<>>
    /\ batch = <<>>
    /\ call = None

\* ------------------------------------------------------------- run_all_tests
\* lines 238-239
SubstAccessToken(test, token) ==
    IF Truthy(token) /\ test.auth.t # "none"
    THEN [test EXCEPT !.auth = Str(Replace(test.auth.v, ACCESS_TOKEN, token.v))]
    ELSE test

\* lines 242-246
SubstRefreshToken(test, token) ==
    IF Truthy(token) /\ Truthy(test.data) /\ Contains(test.data.v, REFRESH_TOKEN)
    THEN [test EXCEPT !.data = Str(Replace(test.data.v, REFRESH_TOKEN, token.v))]
    ELSE test

\* faulty variant: the test `method == "POST"` of line 253 left out
IsTokenStep_AnyMethod(response_obj, status, method, endpoint) ==
    /\ Truthy(response_obj)
    /\ StartsWith2(status)
    /\ (Contains(endpoint, <<"auth:login">>) \/ Contains(endpoint, <<"auth:refresh">>))

\* lines 253-254: the step is a login or a refresh that answered
IsTokenStep(response_obj, status, method, endpoint) ==
    /\ Truthy(response_obj)
    /\ StartsWith2(status)
    /\ method = "POST"
    /\ (Contains(endpoint, <<"auth:login">>) \/ Contains(endpoint, <<"auth:refresh">>))

\* lines 256-259 and 261-264: the token and its history after a token step
TokenAfter(token, new_token) == IF Truthy(new_token) THEN new_token ELSE token

\* faulty variant: the tests `not in` of lines 258 and 263 left out
SeenAfter_NoDedup(seen, new_token) ==
    IF Truthy(new_token) THEN Append(seen, new_token) ELSE seen

SeenAfter(seen, new_token) ==
    IF Truthy(new_token) /\ ~(\E k \in 1..Len(seen) : seen[k] = new_token)
    THEN Append(seen, new_token)
    ELSE seen

\* faulty variant: the guard `not captured_record_id` of line 267 left out
CapturedAfter_Overwrite(captured, response_obj, status, endpoint) ==
    IF /\ Truthy(response_obj)
       /\ StartsWith2(status)
       /\ (Contains(endpoint, <<":create">>) \/ Contains(endpoint, <<":list">>))
       /\ Truthy(extract_record_id_from_response(response_obj))
    THEN extract_record_id_from_response(response_obj)
    ELSE captured

\* faulty variant: the endpoint test of line 269 left out
CapturedAfter_AnyEndpoint(captured, response_obj, status, endpoint) ==
    IF /\ Truthy(response_obj)
       /\ StartsWith2(status)
       /\ ~Truthy(captured)
       /\ Truthy(extract_record_id_from_response(response_obj))
    THEN extract_record_id_from_response(response_obj)
    ELSE captured

\* lines 267-272: the captured id after the step
CapturedAfter(captured, response_obj, status, endpoint) ==
    IF /\ Truthy(response_obj)
       /\ StartsWith2(status)
       /\ ~Truthy(captured)
       /\ (Contains(endpoint, <<":create">>) \/ Contains(endpoint, <<":list">>))
       /\ Truthy(extract_record_id_from_response(response_obj))
    THEN extract_record_id_from_response(response_obj)
    ELSE captured

\* lines 277-279 and 281-283: every token of a history replaced by its placeholder
RECURSIVE RedactTokens(_, _, _)
RedactTokens(text, tokens, placeholder) ==
    IF tokens = <<>> THEN text
    ELSE RedactTokens(IF Truthy(Head(tokens))
                      THEN Replace(text, Head(tokens).v, placeholder)
                      ELSE text,
                      Tail(tokens), placeholder)

\* lines 275-286: the command as the transcript shows it
RenderCommand(curl_cmd, serverURL, docURL, seenA, seenR, captured, placeholder_type) ==
    LET doc == Replace(curl_cmd, serverURL, docURL)
        a == RedactTokens(doc, seenA, ACCESS_TOKEN)
        r == RedactTokens(a, seenR, REFRESH_TOKEN)
    IN  IF Truthy(captured) /\ placeholder_type # <<>>
        THEN Replace(r, captured.v, placeholder_type)
        ELSE r

\* faulty variant: the test `if test_name` of line 293 left out
TranscriptAfter_All(md, test_name, idx, cmd_doc, status, body) ==
    Append(md, [test |-> idx, heading |-> test_name, cmd |-> cmd_doc,
                status |-> status, body |-> body])

\* lines 288-294: the transcript after the step.  A block stands for the three
\* strings format_markdown_result returns (heading and command, status, body);
\* `test` is history: the position of the test the block was rendered for.
TranscriptAfter(md, test_name, idx, cmd_doc, status, body) ==
    IF test_name # <<>>
    THEN Append(md, [test |-> idx, heading |-> test_name, cmd |-> cmd_doc,
                     status |-> status, body |-> body])
    ELSE md

\* faulty variant: the status of the last test alone decides
AllOkAfter_LastOnly(ok, status) == StartsWith2(status)

\* lines 296-297
AllOkAfter(ok, status) == IF ~StartsWith2(status) THEN FALSE ELSE ok

\* faulty variant: the refresh token and the captured id outlive the call
RunAllTestsInit_Stale ==
    /\ pc = "call"
    /\ IF tests.missing # {}
       THEN /\ pc' = "crashed"
            /\ UNCHANGED <<access_token, locals>>
       ELSE /\ pc' = "loop"
            /\ i' = 1
            /\ results_md' = <<>>
            /\ all_ok' = TRUE
            /\ all_access_tokens' =
                   IF Truthy(access_token) THEN <<access_token>> ELSE <<>>
            /\ all_refresh_tokens' = <<>>
            /\ steps' = <<>>
            /\ UNCHANGED <<access_token, captured_record_id, refresh_token>>
    /\ UNCHANGED <<mode, files, fileIdx, tests, returned, sent, batch, call>>

\* lines 219-229 (and the KeyError of 220, 221 or 231 on a suite that lacks a key)
RunAllTestsInit ==
    /\ pc = "call"
    /\ IF tests.missing # {}
       THEN /\ pc' = "crashed"
            /\ UNCHANGED <<access_token, locals>>
       ELSE /\ pc' = "loop"
            /\ i' = 1
            /\ results_md' = <<>>
            /\ all_ok' = TRUE
            /\ captured_record_id' = None
            /\ refresh_token' = None
            /\ all_access_tokens' =
                   IF Truthy(access_token) THEN <<access_token>> ELSE <<>>
            /\ all_refresh_tokens' = <<>>
            /\ steps' = <<>>
            /\ UNCHANGED access_token
    /\ UNCHANGED <<mode, files, fileIdx, tests, returned, sent, batch, call>>

\* lines 231-297: one iteration of the for loop, the request and its answer
\* included; an AttributeError of line 255 (the body of a login answer is JSON
\* but no object) leaves the loop and the program.  The test as rewritten, the
\* request and the result of run_test are each bound once.
RunTest ==
    /\ pc = "loop"
    /\ i <= Len(tests.tests)
    /\ \E rep \in {IF Truthy(captured_record_id)
                   THEN replace_record_in_test(tests.tests[i], captured_record_id)
                   ELSE [test |-> tests.tests[i], used |-> <<>>]} :
       \E test \in {SubstRefreshToken(SubstAccessToken(rep.test, access_token),
                                      refresh_token)} :
       \E req \in {Request(tests.serverURL, tests.prefix, test)} :
       \E out \in Outcomes :
       \E res \in {run_test(tests.serverURL, tests.prefix, test, out)} :
        LET placeholder_type == rep.used
            endpoint == test.endpoint
            method == Method(test)
            tokenStep == IsTokenStep(res.response_obj, res.status, method, endpoint)
            raises == tokenStep /\ ~IsDict(res.response_obj)
            new_access == IF tokenStep THEN Get(res.response_obj, "access_token") ELSE None
            new_refresh == IF tokenStep THEN Get(res.response_obj, "refresh_token") ELSE None
            seenA == SeenAfter(all_access_tokens, new_access)
            seenR == SeenAfter(all_refresh_tokens, new_refresh)
            captured == CapturedAfter(captured_record_id, res.response_obj,
                                      res.status, endpoint)
            cmd_doc == RenderCommand(res.curl_cmd, tests.serverURL, tests.docURL,
                                     seenA, seenR, captured, placeholder_type)
        IN  /\ tests' = [tests EXCEPT !.tests[i] = test]
            /\ sent' = Append(sent, req)
            /\ IF raises
               THEN /\ pc' = "crashed"
                    /\ UNCHANGED <<access_token, locals>>
               ELSE /\ pc' = "loop"
                    /\ i' = i + 1
                    /\ access_token' = TokenAfter(access_token, new_access)
                    /\ refresh_token' = TokenAfter(refresh_token, new_refresh)
                    /\ all_access_tokens' = seenA
                    /\ all_refresh_tokens' = seenR
                    /\ captured_record_id' = captured
                    /\ results_md' = TranscriptAfter(results_md, Strip(test.name), i,
                                                     cmd_doc, res.status, res.body)
                    /\ all_ok' = AllOkAfter(all_ok, res.status)
                    /\ steps' = Append(steps,
                                       [out |-> out, status |-> res.status, req |-> req,
                                        placeholder_type |-> placeholder_type,
                                        token_before |-> access_token,
                                        id_before |-> captured_record_id])
    /\ UNCHANGED <<mode, files, fileIdx, returned, batch, call>>

\* lines 298-302, and in main lines 365-368 and the step to the next file
RunAllTestsReturn ==
    /\ pc = "loop"
    /\ i > Len(tests.tests)
    /\ returned' = Append(returned,
                          [status |-> IF all_ok THEN "success" ELSE "failure",
                           markdown |-> results_md])
    /\ IF mode = "main"
       THEN pc' = "main_loop" /\ fileIdx' = fileIdx + 1
       ELSE pc' = "done" /\ UNCHANGED fileIdx
    /\ UNCHANGED <<mode, files, tests, access_token, locals, sent, batch, call>>

Next == RunAllTestsInit \/ RunTest \/ RunAllTestsReturn

Spec == Init /\ [][Next]_vars

\* ---------------------------------------------------------------------- main
\* lines 333-336
NeedsToken(t) == t.auth.t # "none" /\ Contains(t.auth.v, ACCESS_TOKEN)

\* tests.get('tests', [])
TestList(suite) == IF "tests" \in suite.missing THEN <<>> ELSE suite.tests

need_token(suite) == \E k \in 1..Len(TestList(suite)) : NeedsToken(TestList(suite)[k])

\* lines 354-359: $ACCESS_TOKEN of every header replaced by the token, or by ''
SeedHeaders(suite, token) ==
    [suite EXCEPT !.tests =
        [k \in 1..Len(suite.tests) |->
            IF NeedsToken(suite.tests[k])
            THEN [suite.tests[k] EXCEPT !.auth =
                     Str(Replace(suite.tests[k].auth.v, ACCESS_TOKEN,
                                 IF Truthy(token) THEN token.v ELSE <<>>))]
            ELSE suite.tests[k]]]

\* what the pre-flight GET answers
HealthOutcomes == {"200", "unhealthy", "unreachable"}

\* what the bootstrap login yields: access_token of the answer, None on any failure
LoginOutcomes == {None, Str(T0)}

\* faulty variant: the `continue` of lines 327 and 330 left out
MainHealthCheck_NoSkip ==
    /\ pc = "main_loop"
    /\ fileIdx <= Len(files)
    /\ tests' = files[fileIdx]
    /\ IF "serverURL" \in files[fileIdx].missing
       THEN /\ pc' = "crashed"
            /\ batch' = Append(batch, [health |-> "KeyError", login |-> "none",
                                        seed |-> None, from |-> Len(sent)])
            /\ UNCHANGED <<fileIdx, sent>>
       ELSE \E h \in HealthOutcomes :
               /\ batch' = Append(batch, [health |-> h, login |-> "none",
                                           seed |-> None, from |-> Len(sent)])
               /\ sent' = Append(sent,
                     [kind |-> "health", method |-> "GET",
                      url |-> files[fileIdx].serverURL \o files[fileIdx].prefix
                              \o <<"/health">>,
                      auth |-> None, data |-> None])
               /\ pc' = "main_boot"
               /\ UNCHANGED fileIdx
    /\ UNCHANGED <<mode, files, access_token, locals, returned, call>>

\* lines 316-330: the file is loaded and its health checked (a file without
\* serverURL raises KeyError at line 322)
MainHealthCheck ==
    /\ pc = "main_loop"
    /\ fileIdx <= Len(files)
    /\ tests' = files[fileIdx]
    /\ IF "serverURL" \in files[fileIdx].missing
       THEN /\ pc' = "crashed"
            /\ batch' = Append(batch, [health |-> "KeyError", login |-> "none",
                                        seed |-> None, from |-> Len(sent)])
            /\ UNCHANGED <<fileIdx, sent>>
       ELSE \E h \in HealthOutcomes :
               /\ batch' = Append(batch, [health |-> h, login |-> "none",
                                           seed |-> None, from |-> Len(sent)])
               /\ sent' = Append(sent,
                     [kind |-> "health", method |-> "GET",
                      url |-> files[fileIdx].serverURL \o files[fileIdx].prefix
                              \o <<"/health">>,
                      auth |-> None, data |-> None])
               /\ IF h = "200"
                  THEN pc' = "main_boot" /\ UNCHANGED fileIdx
                  ELSE pc' = "main_loop" /\ fileIdx' = fileIdx + 1
    /\ UNCHANGED <<mode, files, access_token, locals, returned, call>>

\* faulty variant: a failed login ends the suite
MainBootstrap_SkipOnFailure ==
    /\ pc = "main_boot"
    /\ IF need_token(tests)
       THEN \E token \in LoginOutcomes :
               /\ sent' = Append(sent,
                     [kind |-> "login", method |-> "POST",
                      url |-> tests.serverURL \o <<"/", "auth:login">>,
                      auth |-> None, data |-> Str(<<"credentials">>)])
               /\ access_token' = token
               /\ tests' = SeedHeaders(tests, token)
               /\ batch' = [batch EXCEPT ![fileIdx].seed = token,
                                          ![fileIdx].login =
                                              IF Truthy(token) THEN "ok" ELSE "failed"]
               /\ IF Truthy(token)
                  THEN pc' = "call" /\ UNCHANGED fileIdx
                  ELSE pc' = "main_loop" /\ fileIdx' = fileIdx + 1
       ELSE /\ access_token' = None
            /\ pc' = "call"
            /\ UNCHANGED <<sent, tests, batch, fileIdx>>
    /\ UNCHANGED <<mode, files, locals, returned, call>>

\* lines 332-359: the bootstrap login and the rewrite of the headers
MainBootstrap ==
    /\ pc = "main_boot"
    /\ IF need_token(tests)
       THEN \E token \in LoginOutcomes :
               /\ sent' = Append(sent,
                     [kind |-> "login", method |-> "POST",
                      url |-> tests.serverURL \o <<"/", "auth:login">>,
                      auth |-> None, data |-> Str(<<"credentials">>)])
               /\ access_token' = token
               /\ tests' = SeedHeaders(tests, token)
               /\ batch' = [batch EXCEPT ![fileIdx].seed = token,
                                          ![fileIdx].login =
                                              IF Truthy(token) THEN "ok" ELSE "failed"]
       ELSE /\ access_token' = None
            /\ UNCHANGED <<sent, tests, batch>>
    /\ pc' = "call"
    /\ UNCHANGED <<mode, files, fileIdx, locals, returned, call>>

\* the for loop of line 316 is over
MainExit ==
    /\ pc = "main_loop"
    /\ fileIdx > Len(files)
    /\ pc' = "done"
    /\ UNCHANGED <<mode, files, fileIdx, tests, access_token, locals, returned, sent, batch, call>>

\* the test cases of the suite files main is run on
MainTestCases ==
    { TestCase(<<"Login">>, "POST", <<"/", "auth:login">>, None, Str(<<"creds">>)),
      TestCase(<<"Create">>, "POST", <<"/w", ":create">>, Bearer, Str(<<"payload">>)),
      TestCase(<<"Get">>, "get", <<"/w/">> \o ULID, Bearer, None),
      TestCase(<<>>, "GET", <<"/w", ":list">>, None, None) }

MainSuites == {Suite(q) : q \in SeqsUpTo(MainTestCases, MaxTests) \ {<<>>}}

\* main() about to run on one suite file
InitMain ==
    /\ mode = "main"
    /\ pc = "main_loop"
    /\ files \in {<<s>> : s \in MainSuites}
    /\ fileIdx = 1
    /\ tests = NoSuite
    /\ access_token = None
    /\ i = 0
    /\ refresh_token = None
    /\ captured_record_id = None
    /\ all_access_tokens = <<>>
    /\ all_refresh_tokens = <<>>
    /\ all_ok = TRUE
    /\ results_md = <<>>
    /\ returned = <<>>
    /\ sent = <<>>
    /\ steps = <<>>
    /\ batch = <<>>
    /\ call = None

NextMain ==
    \/ MainHealthCheck
    \/ MainBootstrap
    \/ RunAllTestsInit
    \/ RunTest
    \/ RunAllTestsReturn
    \/ MainExit

SpecMain == InitMain /\ [][NextMain]_vars

\* ------------------------------------------------------- main on a batch
\* a suite file that lacks a key of the JSON object
SuiteWithout(key, testlist) == [Suite(testlist) EXCEPT !.missing = {key}]

\* the suite files of a batch: one that logs in, one that creates a record with
\* the seeded token, one whose test uses a record id and a refresh token, and
\* two that lack a key
BatchSuites ==
    { Suite(<<TestCase(<<"Login">>, "POST", <<"/", "auth:login">>, None, Str(<<"creds">>))>>),
      Suite(<<TestCase(<<"Create">>, "POST", <<"/w", ":create">>, Bearer, Str(<<"payload">>))>>),
      Suite(<<TestCase(<<"Use">>, "POST", <<"/w/">> \o ULID, None, Str(REFRESH_TOKEN))>>),
      SuiteWithout("serverURL",
                   <<TestCase(<<"Get">>, "get", <<"/w/">> \o ULID, Bearer, None)>>),
      SuiteWithout("tests", <<>>) }

\* main() about to run on the files of the test directory (line 315)
InitBatch ==
    /\ mode = "main"
    /\ pc = "main_loop"
    /\ files \in SeqsUpTo(BatchSuites, MaxFiles) \ {<<>>}
    /\ fileIdx = 1
    /\ tests = NoSuite
    /\ access_token = None
    /\ i = 0
    /\ refresh_token = None
    /\ captured_record_id = None
    /\ all_access_tokens = <<>>
    /\ all_refresh_tokens = <<>>
    /\ all_ok = TRUE
    /\ results_md = <<>>
    /\ returned = <<>>
    /\ sent = <<>>
    /\ steps = <<>>
    /\ batch = <<>>
    /\ call = None

SpecBatch == InitBatch /\ [][NextMain]_vars

\* ------------------------------------------------------- reading the history
\* test k of the suite in hand as its file declares it
Declared(k) == files[fileIdx].tests[k]

\* the test is rendered: its name is not blank
Named(t) == Strip(t.name) # <<>>

\* the block of the transcript rendered for test k (None when there is none)
BlockOf(k) ==
    IF \E b \in 1..Len(results_md) : results_md[b].test = k
    THEN results_md[CHOOSE b \in 1..Len(results_md) : results_md[b].test = k]
    ELSE None

\* the run is inside run_all_tests or has returned from it
InRun == pc \in {"loop", "done"}

\* ------------------------------------------------------------------- claims

\* C1: the verdict of run_all_tests is success exactly when every test's status
\* code was in 200..299 (a transport error or another class gives failure), and
\* during the run all_ok is false from the first such test on, whatever follows.
C1_VerdictIffAll2xx ==
    /\ pc = "loop" => (all_ok <=> \A k \in 1..Len(steps) : Is2xx(steps[k].out))
    /\ (mode = "engine" /\ pc = "done") =>
           returned[1].status =
               IF \A k \in 1..Len(steps) : Is2xx(steps[k].out)
               THEN "success" ELSE "failure"

C1_Witness ==
    /\ pc = "done"
    /\ Len(steps) = 2
    /\ ~Is2xx(steps[1].out)
    /\ Is2xx(steps[2].out)
    /\ returned[1].status = "failure"

\* C2: a run never ends by an exception raised out of the engine; when it has
\* returned, one request per test was issued, in declaration order, and every
\* transport failure was recorded as status ERROR with the failure text as body.
C2_RunAlwaysCompletes ==
    /\ pc # "crashed"
    /\ (mode = "engine" /\ pc = "done") =>
        /\ Len(steps) = Len(tests.tests)
        /\ \A k \in 1..Len(steps) :
              /\ sent[k] = steps[k].req
              /\ steps[k].req.method = Method(Declared(k))
              /\ steps[k].out.err => steps[k].status = <<"ERROR">>

\* C3: once captured_record_id holds a value, no later test of the run changes it.
C3_CaptureOnce ==
    InRun =>
        \A k \in 1..Len(steps) :
            Truthy(steps[k].id_before) =>
                IF k < Len(steps)
                THEN steps[k + 1].id_before = steps[k].id_before
                ELSE captured_record_id = steps[k].id_before

C3_Witness ==
    /\ pc = "loop"
    /\ Len(steps) = 2
    /\ steps[2].id_before = Str(R1)
    /\ Is2xx(steps[2].out)
    /\ Contains(steps[2].req.url, <<":create">>)
    /\ steps[2].out.obj = Body2
    /\ captured_record_id = Str(R1)

\* C4: no block of the transcript (command or response body) holds the text of
\* a token that was assigned to access_token or refresh_token during the run.
C4_RedactionComplete ==
    InRun =>
        \A b \in 1..Len(results_md) :
            /\ \A a \in 1..Len(all_access_tokens) :
                  /\ ~Contains(results_md[b].cmd, all_access_tokens[a].v)
                  /\ ~Contains(results_md[b].body, all_access_tokens[a].v)
            /\ \A r \in 1..Len(all_refresh_tokens) :
                  /\ ~Contains(results_md[b].cmd, all_refresh_tokens[r].v)
                  /\ ~Contains(results_md[b].body, all_refresh_tokens[r].v)

\* the access token a step's answer carries when the step is a login or a refresh
\* (POST, status code in 200..299, endpoint auth:login or auth:refresh)
TokenOf(step) ==
    IF /\ step.req.method = "POST"
       /\ Is2xx(step.out)
       /\ (Contains(step.req.url, <<"auth:login">>) \/ Contains(step.req.url, <<"auth:refresh">>))
       /\ HasKey(step.out.obj, "access_token")
       /\ Truthy(step.out.obj.v["access_token"])
    THEN step.out.obj.v["access_token"]
    ELSE None

\* the refresh token a step's answer carries when the step is a login or a
\* refresh (POST, status code in 200..299, endpoint auth:login or auth:refresh)
RefreshOf(step) ==
    IF /\ step.req.method = "POST"
       /\ Is2xx(step.out)
       /\ (Contains(step.req.url, <<"auth:login">>) \/ Contains(step.req.url, <<"auth:refresh">>))
       /\ HasKey(step.out.obj, "refresh_token")
       /\ Truthy(step.out.obj.v["refresh_token"])
    THEN step.out.obj.v["refresh_token"]
    ELSE None

\* the access token most recently observed in steps 1..k of the run
RECURSIVE LatestToken(_)
LatestToken(k) ==
    IF k = 0 THEN None
    ELSE IF Truthy(TokenOf(steps[k])) THEN TokenOf(steps[k])
    ELSE LatestToken(k - 1)

\* C5: after a login or refresh of the suite answered with access token T, every
\* later test declared with the header "Bearer $ACCESS_TOKEN" is sent with
\* "Bearer T" (T the most recent such token), and its block of the transcript
\* shows "Bearer $ACCESS_TOKEN"; also under main with a bootstrap seed.
C5_LatestTokenSent ==
    pc = "loop" =>
        \A k \in 1..Len(steps) :
            (Declared(k).auth = Bearer /\ Truthy(LatestToken(k - 1))) =>
                /\ steps[k].req.auth = Str(<<"Bearer ">> \o LatestToken(k - 1).v)
                /\ Named(Declared(k)) =>
                       Contains(BlockOf(k).cmd, <<"Bearer ">> \o ACCESS_TOKEN)

\* step j is a :create answered 2xx with a body whose id is data.id, no id
\* captured before
CreatedAt(j) ==
    /\ Is2xx(steps[j].out)
    /\ Contains(steps[j].req.url, <<":create">>)
    /\ ~Truthy(steps[j].id_before)
    /\ IsDict(steps[j].out.obj)
    /\ "id" \notin DOMAIN steps[j].out.obj.v
    /\ HasKey(steps[j].out.obj, "data")
    /\ HasKey(steps[j].out.obj.v["data"], "id")
    /\ Truthy(steps[j].out.obj.v["data"].v["id"])

\* C6: after such a :create, every later test whose declared endpoint holds
\* $ULID is requested at the endpoint with $ULID replaced by R, and its block of
\* the transcript shows the declared endpoint, $ULID included.
C6_UlidResolved ==
    pc = "loop" =>
        \A j \in 1..Len(steps) : \A k \in 1..Len(steps) :
            (j < k /\ CreatedAt(j) /\ Contains(Declared(k).endpoint, ULID)) =>
                /\ steps[k].req.url =
                       tests.serverURL \o tests.prefix
                       \o Replace(Declared(k).endpoint, ULID,
                                  steps[j].out.obj.v["data"].v["id"].v)
                /\ Named(Declared(k)) =>
                       Contains(BlockOf(k).cmd,
                                tests.docURL \o tests.prefix \o Declared(k).endpoint
                                \o <<"\"">>)

\* C7: for a test whose declared endpoint holds both $NEXT_CURSOR and $ULID, run
\* with a captured id R, $NEXT_CURSOR is what replace_record_in_test replaces in
\* the endpoint and $NEXT_CURSOR is the kind it reports, whatever the body holds.
C7_NextCursorReported ==
    pc = "loop" =>
        \A k \in 1..Len(steps) :
            (/\ Contains(Declared(k).endpoint, NEXT_CURSOR)
             /\ Contains(Declared(k).endpoint, ULID)
             /\ Truthy(steps[k].id_before)) =>
                /\ steps[k].req.url =
                       tests.serverURL \o tests.prefix
                       \o Replace(Declared(k).endpoint, NEXT_CURSOR, steps[k].id_before.v)
                /\ steps[k].placeholder_type = NEXT_CURSOR

\* C9: a test declared with $ACCESS_TOKEN in its Authorization header and run
\* while no access token is known is sent with $ACCESS_TOKEN replaced by the
\* empty text: the text $ACCESS_TOKEN never reaches the server.
C9_EmptyTokenSent ==
    pc = "loop" =>
        \A k \in 1..Len(steps) :
            (NeedsToken(Declared(k)) /\ ~Truthy(steps[k].token_before)) =>
                steps[k].req.auth = Str(Replace(Declared(k).auth.v, ACCESS_TOKEN, <<>>))

\* the positions, in order, of the named tests among tests 1..n
RECURSIVE NamedUpTo(_)
NamedUpTo(n) ==
    IF n = 0 THEN <<>>
    ELSE IF Named(Declared(n)) THEN Append(NamedUpTo(n - 1), n)
    ELSE NamedUpTo(n - 1)

\* the record id a step's answer carries when the step is a 2xx :create or :list
\* taken while no id is captured
RecordIdOf(step) ==
    IF /\ Is2xx(step.out)
       /\ (Contains(step.req.url, <<":create">>) \/ Contains(step.req.url, <<":list">>))
       /\ ~Truthy(step.id_before)
       /\ Truthy(extract_record_id_from_response(step.out.obj))
    THEN extract_record_id_from_response(step.out.obj)
    ELSE None

\* C10: the transcript holds one block per named test (a test whose name is not
\* blank) executed so far, in declaration order, and none for an unnamed test;
\* every test is executed, and the last executed test, named or not, has had
\* its effect: a token or record id its answer carries is captured, and a
\* status outside 2xx has set all_ok to false.
C10_OnlyNamedRendered ==
    InRun =>
        /\ Len(steps) = i - 1
        /\ [b \in 1..Len(results_md) |-> results_md[b].test] = NamedUpTo(Len(steps))
        /\ Len(steps) > 0 =>
              LET last == steps[Len(steps)]
              IN  /\ Truthy(TokenOf(last)) => access_token = TokenOf(last)
                  /\ Truthy(RecordIdOf(last)) => captured_record_id = RecordIdOf(last)
                  /\ ~Is2xx(last.out) => ~all_ok

C10_Witness ==
    /\ pc = "loop"
    /\ Len(steps) = 2
    /\ Named(Declared(1))
    /\ ~Named(Declared(2))
    /\ Len(results_md) = 1
    /\ steps[2].token_before # Str(T1)
    /\ TokenOf(steps[2]) = Str(T1)
    /\ access_token = Str(T1)

\* C17: a step of the run changes access_token, refresh_token and the two
\* histories only when its method is POST, its status code is in 200..299 and
\* its endpoint holds auth:login or auth:refresh; the new token is then the
\* top-level access_token / refresh_token of the answer, added to its history
\* when new.  Every other step (GET, another status, ERROR, another endpoint,
\* a body that is no JSON) leaves the four unchanged.
C17_TokensChangeOnlyOnLogin ==
    [][(pc = "loop" /\ Len(steps') = Len(steps) + 1) =>
          LET s == steps'[Len(steps')]
          IN  /\ access_token' = IF Truthy(TokenOf(s)) THEN TokenOf(s) ELSE access_token
              /\ refresh_token' = IF Truthy(RefreshOf(s)) THEN RefreshOf(s) ELSE refresh_token
              /\ all_access_tokens' # all_access_tokens =>
                     /\ Truthy(TokenOf(s))
                     /\ all_access_tokens' = Append(all_access_tokens, TokenOf(s))
              /\ all_refresh_tokens' # all_refresh_tokens =>
                     /\ Truthy(RefreshOf(s))
                     /\ all_refresh_tokens' = Append(all_refresh_tokens, RefreshOf(s))]_vars

\* a GET of auth:login answered 2xx with tokens has changed nothing, the POST
\* after it has set both tokens
C17_Witness ==
    /\ pc = "loop"
    /\ Len(steps) = 2
    /\ steps[1].req.method = "GET"
    /\ Contains(steps[1].req.url, <<"auth:login">>)
    /\ steps[1].out = Answer(201, Body1)
    /\ steps[2].token_before = steps[1].token_before
    /\ steps[2].req.method = "POST"
    /\ steps[2].out = Answer(201, Body1)
    /\ access_token = Str(T1)
    /\ refresh_token = Str(F1)
    /\ all_refresh_tokens = <<Str(F1)>>

\* the captured id as step k left it
IdAfter(k) == IF k < Len(steps) THEN steps[k + 1].id_before ELSE captured_record_id

\* C18: captured_record_id goes from unset to a value only in a step whose
\* status code is in 200..299 and whose endpoint holds :create or :list; a step
\* with another status, a transport error or another endpoint leaves it as it
\* was, whatever id its body carries.
C18_CaptureOnlyOnCreateOrList ==
    InRun =>
        \A k \in 1..Len(steps) :
            LET triggers == /\ Is2xx(steps[k].out)
                            /\ \/ Contains(steps[k].req.url, <<":create">>)
                               \/ Contains(steps[k].req.url, <<":list">>)
            IN  /\ (~Truthy(steps[k].id_before) /\ Truthy(IdAfter(k))) => triggers
                /\ ~triggers => IdAfter(k) = steps[k].id_before

\* a :create answered 404 with an id in its body captured nothing, the next one
\* answered 201 did
C18_Witness ==
    /\ pc = "loop"
    /\ Len(steps) = 2
    /\ Contains(steps[1].req.url, <<":create">>)
    /\ steps[1].out = Answer(404, Body1)
    /\ steps[2].id_before = None
    /\ Contains(steps[2].req.url, <<":create">>)
    /\ steps[2].out = Answer(201, Body1)
    /\ captured_record_id = Str(R1)

\* C19: the block of a test run with a captured id shows the command as the
\* suite declares it: each place where the id was written shows the placeholder
\* that stood there, $ULID or $NEXT_CURSOR, also when the endpoint holds one kind
\* and the body the other.
C19_RedactedToOriginatingPlaceholder ==
    pc = "loop" =>
        \A k \in 1..Len(steps) :
            (Truthy(steps[k].id_before) /\ Named(Declared(k))) =>
                BlockOf(k).cmd =
                    build_curl_command(tests.docURL \o tests.prefix \o Declared(k).endpoint,
                                       Method(Declared(k)), Declared(k).auth,
                                       Declared(k).data)

NoDuplicate(seq) == \A m, n \in 1..Len(seq) : seq[m] = seq[n] => m = n

IsPrefix(old, new) == Len(old) <= Len(new) /\ \A n \in 1..Len(old) : new[n] = old[n]

Holds(seq, token) == \E n \in 1..Len(seq) : seq[n] = token

\* C20: in every state of a suite run all_access_tokens and all_refresh_tokens
\* hold no value twice and hold the current access_token / refresh_token when
\* it is set, the seed passed to run_all_tests included; and no step of the run
\* removes or reorders what they hold.
C20_SeenTokens ==
    /\ [](InRun =>
            /\ NoDuplicate(all_access_tokens)
            /\ NoDuplicate(all_refresh_tokens)
            /\ Truthy(access_token) => Holds(all_access_tokens, access_token)
            /\ Truthy(refresh_token) => Holds(all_refresh_tokens, refresh_token))
    /\ [][pc = "loop" =>
            /\ IsPrefix(all_access_tokens, all_access_tokens')
            /\ IsPrefix(all_refresh_tokens, all_refresh_tokens')]_vars

\* a run seeded with a token logged in twice and was answered the same token twice
C20_Witness ==
    /\ pc = "loop"
    /\ Len(steps) = 2
    /\ steps[1].token_before = Str(T0)
    /\ TokenOf(steps[1]) = Str(T1)
    /\ TokenOf(steps[2]) = Str(T1)
    /\ access_token = Str(T1)
    /\ all_access_tokens = <<Str(T0), Str(T1)>>
    /\ all_refresh_tokens = <<Str(F1)>>

\* ------------------------------------------------------ claims on a batch
\* C11: in a batch, the state a test of a suite runs in comes from that suite
\* alone: the access token is the suite's own bootstrap seed or the latest one
\* its own tests obtained, a captured id or refresh token is one its own tests
\* obtained, the seen-token histories hold the seed and its own tokens only,
\* and a test run before the suite obtained any id or refresh token is sent
\* with its placeholders $ULID and $REFRESH_TOKEN as declared.
C11_FreshExecutionState ==
    (mode = "main" /\ pc = "loop") =>
        LET seed == batch[fileIdx].seed
            own == 1..Len(steps)
        IN  /\ \A k \in own :
                  /\ steps[k].token_before =
                         IF Truthy(LatestToken(k - 1)) THEN LatestToken(k - 1) ELSE seed
                  /\ Truthy(steps[k].id_before) =>
                         \E j \in 1..(k - 1) : RecordIdOf(steps[j]) = steps[k].id_before
                  /\ (\A j \in 1..(k - 1) : /\ ~Truthy(RecordIdOf(steps[j]))
                                             /\ ~Truthy(RefreshOf(steps[j]))) =>
                         /\ steps[k].req.data = Declared(k).data
                         /\ steps[k].req.url =
                                tests.serverURL \o tests.prefix \o Declared(k).endpoint
            /\ Truthy(captured_record_id) =>
                   \E j \in own : RecordIdOf(steps[j]) = captured_record_id
            /\ Truthy(refresh_token) =>
                   \E j \in own : RefreshOf(steps[j]) = refresh_token
            /\ {all_access_tokens[a] : a \in 1..Len(all_access_tokens)} =
                   {t \in {seed} \cup {TokenOf(steps[j]) : j \in own} : Truthy(t)}
            /\ {all_refresh_tokens[r] : r \in 1..Len(all_refresh_tokens)} =
                   {t \in {RefreshOf(steps[j]) : j \in own} : Truthy(t)}

\* the second suite of a batch runs its test after the first suite logged in
\* and was answered a refresh token
C11_Witness ==
    /\ mode = "main"
    /\ pc = "loop"
    /\ fileIdx = 2
    /\ Len(returned) = 1
    /\ Len(returned[1].markdown) = 1
    /\ Contains(returned[1].markdown[1].body, F1)
    /\ Len(steps) = 1
    /\ Declared(1).data = Str(REFRESH_TOKEN)
    /\ steps[1].req.data = Str(REFRESH_TOKEN)
    /\ refresh_token = None

\* the suite file lacks serverURL or tests
Malformed(suite) == suite.missing # {}

\* C12: when main has stopped, on its own or at a suite file that lacks
\* serverURL or tests, every well-formed file of the batch has been
\* health-checked, those before and those after the malformed one, and each
\* healthy one has been executed to a verdict.
C12_MalformedFailsAlone ==
    (/\ mode = "main"
     /\ pc \in {"done", "crashed"}
     /\ pc = "crashed" => Malformed(files[fileIdx])) =>
        LET wellFormed == {g \in 1..Len(files) : ~Malformed(files[g])}
        IN  /\ \A g \in wellFormed :
                  g <= Len(batch) /\ batch[g].health \in HealthOutcomes
            /\ Len(returned) =
                   Cardinality({g \in wellFormed : g <= Len(batch) /\ batch[g].health = "200"})

\* the pre-flight of file f was answered by another status than 200, or not at all
Skipped(f) == batch[f].health \in {"unhealthy", "unreachable"}

\* C13: a suite whose pre-flight health check answers another status than 200,
\* or does not answer, is skipped: its health request is the only request
\* issued for it (no bootstrap login, no test), main goes on to the next file,
\* and between two files there is one verdict (with its transcript) per healthy
\* suite and none for a skipped one.
C13_UnhealthySkipped ==
    mode = "main" =>
        /\ \A f \in 1..Len(batch) :
              Skipped(f) =>
                  LET upto == IF f < Len(batch) THEN batch[f + 1].from ELSE Len(sent)
                  IN  /\ upto = batch[f].from + 1
                      /\ sent[upto].kind = "health"
                      /\ batch[f].login = "none"
                      /\ fileIdx > f
                      /\ f = Len(batch) => pc \in {"main_loop", "done"} /\ fileIdx = f + 1
        /\ pc \in {"main_loop", "done"} =>
              Len(returned) = Cardinality({g \in 1..Len(batch) : batch[g].health = "200"})

C13_Witness ==
    /\ mode = "main"
    /\ pc = "done"
    /\ Len(files) = 2
    /\ batch[1].health = "unreachable"
    /\ batch[2].health = "200"
    /\ Len(files[1].tests) = 1
    /\ NeedsToken(files[1].tests[1])
    /\ Len(returned) = 1
    /\ Len(sent) = 3

\* the requests of one kind issued for file f, as positions of `sent`
RequestsOf(f, kind) ==
    LET upto == IF f < Len(batch) THEN batch[f + 1].from ELSE Len(sent)
    IN  {n \in (batch[f].from + 1)..upto : sent[n].kind = kind}

\* main has left file f behind
Completed(f) == f < Len(batch) \/ (f = Len(batch) /\ pc \in {"main_loop", "done"})

\* C14: the bootstrap login is issued for a healthy suite exactly when a test
\* of it has $ACCESS_TOKEN in its Authorization header.  When that login fails,
\* the seed is empty, run_all_tests is still called, every test that declares
\* $ACCESS_TOKEN is sent with the empty text in its place, and a suite main has
\* left behind had one request per test.
C14_LoginFailureGoesOn ==
    mode = "main" =>
        \A f \in 1..Len(batch) :
            /\ batch[f].login # "none" => batch[f].health = "200" /\ need_token(files[f])
            /\ Cardinality(RequestsOf(f, "login")) =
                   IF batch[f].login # "none" THEN 1 ELSE 0
            /\ (batch[f].health = "200" /\ need_token(files[f])
                 /\ (f < Len(batch) \/ pc # "main_boot")) => batch[f].login # "none"
            /\ batch[f].login = "failed" =>
                   /\ batch[f].seed = None
                   /\ Completed(f) =>
                          Cardinality(RequestsOf(f, "test")) = Len(files[f].tests)
                   /\ (f = Len(batch) /\ pc = "crashed") => RequestsOf(f, "test") # {}
                   /\ (f = Len(batch) /\ pc = "loop") =>
                          \A k \in 1..Len(steps) :
                              NeedsToken(Declared(k)) =>
                                  steps[k].req.auth =
                                      Str(Replace(Declared(k).auth.v, ACCESS_TOKEN, <<>>))

\* the bootstrap login of the second file failed and its test was run and rendered
C14_Witness ==
    /\ mode = "main"
    /\ pc = "done"
    /\ Len(batch) = 2
    /\ batch[2].login = "failed"
    /\ Cardinality(RequestsOf(2, "test")) = 1
    /\ Len(returned) = 2
    /\ Contains(returned[2].markdown[1].cmd, <<" -H \"Authorization: ", "Bearer ", "\"">>)

\* ------------------------------------- extract_record_id_from_response alone
\* elements of the arrays of a response: two records with an id, one without
Items == {Dict("id" :> Str(<<"A">>)), Dict("id" :> Str(<<"B">>)), EmptyDict}

Arrays == {List(q) : q \in SeqsUpTo(Items, MaxArray)}

\* the values a response of the model holds under a key; a scalar names the
\* place it stands at, so that a result tells where it was read
ValuesAt(key) ==
    CASE key = "id" -> {Str(<<"id">>), Str(<<>>)}
      [] key \in {"_id", "ulid", "uuid"} -> {Str(<<key>>)}
      [] key = "record" -> {Dict("id" :> Str(<<"record.id">>)), EmptyDict}
      [] key = "data" ->
            {Dict(k :> Str(<<"data.", k>>)) : k \in {"id", "_id", "ulid", "uuid"}}
            \cup {EmptyDict} \cup Arrays
      [] OTHER -> Arrays

IdKeys == {"id", "data", "record", "apikeys", "users", "records", "items",
           "_id", "ulid", "uuid"}

\* parsed bodies: no JSON, an array, and the objects of at most two keys
ResponseObjects ==
    {None, List(<<Str(<<"x">>)>>), EmptyDict}
    \cup UNION {{Dict(k :> v) : v \in ValuesAt(k)} : k \in IdKeys}
    \cup UNION {{Dict(p[1] :> v1 @@ p[2] :> v2) :
                     v1 \in ValuesAt(p[1]), v2 \in ValuesAt(p[2])} :
                p \in {q \in IdKeys \X IdKeys : q[1] # q[2]}}

\* the function is about to be called on the answer of a test that no id was
\* captured before: its parsed body, its status code and its endpoint
InitExtract ==
    /\ mode = "function"
    /\ pc = "extract_call"
    /\ call \in {[obj |-> o, code |-> c, endpoint |-> e, result |-> None, captured |-> None] :
                     o \in ResponseObjects, c \in StatusCodes,
                     e \in {<<"/w", ":list">>, <<"/w">>}}
    /\ files = <<>>
    /\ fileIdx = 0
    /\ tests = NoSuite
    /\ access_token = None
    /\ i = 0
    /\ refresh_token = None
    /\ captured_record_id = None
    /\ all_access_tokens = <<>>
    /\ all_refresh_tokens = <<>>
    /\ all_ok = TRUE
    /\ results_md = <<>>
    /\ returned = <<>>
    /\ sent = <<>>
    /\ steps = <<>>
    /\ batch = <<>>

\* line 270 and lines 267-272 on the answer
ExtractCall ==
    /\ pc = "extract_call"
    /\ pc' = "extract_done"
    /\ call' = [call EXCEPT
                   !.result = extract_record_id_from_response(call.obj),
                   !.captured = CapturedAfter(None, call.obj, StatusLine(call.code),
                                              call.endpoint)]
    /\ UNCHANGED <<mode, files, fileIdx, tests, access_token, locals, returned, sent, batch>>

NextExtract == ExtractCall

SpecExtract == InitExtract /\ [][NextExtract]_vars

\* the response holds something an id can be read from under `key`
IdBearing(obj, key) ==
    /\ key \in DOMAIN obj.v
    /\ CASE key \in {"id", "_id", "ulid", "uuid"} -> TRUE
         [] IsDict(obj.v[key]) ->
               \/ key = "record" /\ "id" \in DOMAIN obj.v[key].v
               \/ key = "data" /\ DOMAIN obj.v[key].v \cap {"id", "_id", "ulid", "uuid"} # {}
         [] IsList(obj.v[key]) ->
               \E n \in 1..Len(obj.v[key].v) : HasKey(obj.v[key].v[n], "id")
         [] OTHER -> FALSE

\* the only id-bearing shape of the response is a non-empty users array
OnlyUsers(obj) ==
    /\ IsDict(obj)
    /\ "users" \in DOMAIN obj.v
    /\ IsList(obj.v["users"])
    /\ Len(obj.v["users"].v) >= 1
    /\ \A key \in IdKeys \ {"users"} : ~IdBearing(obj, key)

IdOf(item) == IF HasKey(item, "id") THEN item.v["id"] ELSE None

\* the array keys in the order of the claim, and the non-empty arrays of a response
ArrayOrder == <<"apikeys", "users", "data", "records", "items">>

NonEmptyArrays(obj) ==
    {n \in 1..Len(ArrayOrder) :
        /\ ArrayOrder[n] \in DOMAIN obj.v
        /\ IsList(obj.v[ArrayOrder[n]])
        /\ Len(obj.v[ArrayOrder[n]].v) >= 1}

\* the chosen element of the n-th array: the second of two or more users, else the first
Chosen(obj, n) ==
    LET arr == obj.v[ArrayOrder[n]].v
    IN  IF ArrayOrder[n] = "users" /\ Len(arr) >= 2 THEN arr[2] ELSE arr[1]

Least(S) == CHOOSE n \in S : \A m \in S : n <= m

\* the array rule as claimed: the first non-empty array decides
FirstNonEmptyArray(obj) ==
    IF NonEmptyArrays(obj) = {} THEN {}
    ELSE LET item == Chosen(obj, Least(NonEmptyArrays(obj)))
         IN  IF HasKey(item, "id") THEN {item.v["id"]} ELSE {}

\* the array rule as amended: the first non-empty array whose chosen element is
\* an object with an id decides
FirstArrayWithId(obj) ==
    LET having == {n \in NonEmptyArrays(obj) : HasKey(Chosen(obj, n), "id")}
    IN  IF having = {} THEN {} ELSE {Chosen(obj, Least(having)).v["id"]}

\* what the fallback keys hold, at top level or under data
FallbackValues(obj) ==
    {obj.v[k] : k \in DOMAIN obj.v \cap {"_id", "ulid", "uuid"}}
    \cup (IF HasKey(obj, "data") /\ IsDict(obj.v["data"])
          THEN {obj.v["data"].v[k] : k \in DOMAIN obj.v["data"].v \cap {"_id", "ulid", "uuid"}}
          ELSE {})

\* the results the priority order allows for a response, given what the array
\* rule yields for it: first match wins
ByPriority(obj, fromArrays) ==
    IF ~IsDict(obj) \/ DOMAIN obj.v = {} THEN {None}
    ELSE IF "id" \in DOMAIN obj.v THEN {obj.v["id"]}
    ELSE IF HasKey(obj, "data") /\ HasKey(obj.v["data"], "id") THEN {obj.v["data"].v["id"]}
    ELSE IF HasKey(obj, "record") /\ HasKey(obj.v["record"], "id")
         THEN {obj.v["record"].v["id"]}
    ELSE IF fromArrays # {} THEN fromArrays
    ELSE IF FallbackValues(obj) # {} THEN FallbackValues(obj)
    ELSE {None}

\* C15 as claimed: the id is resolved by priority, first match wins: top-level
\* id, data.id, record.id, the id of the chosen element of the first non-empty
\* array among apikeys, users, data, records, items, then a fallback key; no id
\* when no shape matches.
C15_StrictPriority ==
    pc = "extract_done" => call.result \in ByPriority(call.obj, FirstNonEmptyArray(call.obj))

\* C15 as amended: the same order, the array rule taking the first array among
\* apikeys, users, data, records, items that is non-empty and whose chosen
\* element is an object with an id.
C15_PriorityOverArraysWithId ==
    pc = "extract_done" => call.result \in ByPriority(call.obj, FirstArrayWithId(call.obj))

C15_Witness ==
    /\ pc = "extract_done"
    /\ call.obj = Dict("apikeys" :> List(<<EmptyDict>>)
                       @@ "users" :> List(<<Dict("id" :> Str(<<"A">>))>>))
    /\ call.result = Str(<<"A">>)

\* C16: with a top-level ulid or uuid and with data._id (and no shape of higher
\* priority), the value read is the top-level one: the three top-level keys
\* come before the keys under data.
C16_TopLevelBeforeData ==
    (/\ pc = "extract_done"
     /\ IsDict(call.obj)
     /\ DOMAIN call.obj.v \cap {"ulid", "uuid"} # {}
     /\ HasKey(call.obj, "data")
     /\ HasKey(call.obj.v["data"], "_id")
     /\ DOMAIN call.obj.v \cap {"id", "_id", "record", "apikeys", "users", "records", "items"} = {}) =>
        call.result \in {call.obj.v[k] : k \in DOMAIN call.obj.v \cap {"ulid", "uuid"}}

\* C8: for a response whose only id-bearing shape is a users array, the id read
\* is that of the second element when the array has two or more elements and
\* that of the first when it has one; on a 2xx :list answer it is the id captured.
C8_UsersSelection ==
    (pc = "extract_done" /\ OnlyUsers(call.obj)) =>
        LET users == call.obj.v["users"].v
            chosen == IF Len(users) >= 2 THEN IdOf(users[2]) ELSE IdOf(users[1])
        IN  /\ call.result = chosen
            /\ (/\ call.code >= 200 /\ call.code <= 299
                /\ Contains(call.endpoint, <<":list">>)
                /\ Truthy(chosen)) => call.captured = chosen

C8_Witness ==
    /\ pc = "extract_done"
    /\ call.obj = Dict("users" :> List(<<Dict("id" :> Str(<<"A">>)), Dict("id" :> Str(<<"B">>))>>))
    /\ call.code = 200
    /\ call.endpoint = <<"/w", ":list">>
    /\ call.captured = Str(<<"B">>)

====
